---- MODULE Spec2Model ----
(***************************************************************************)
(* Survey intake backend: the Save Response, Get Response and Get          *)
(* Questions handlers over one object-store bucket.                        *)
(*                                                                         *)
(* Strings are sequences of one-character strings, so that the character   *)
(* filters of the handlers are computed character by character.  A Python  *)
(* dict is a function whose DOMAIN is the set of keys present.  A stored   *)
(* object is JSON text (kind "json", holding the value json.loads returns  *)
(* for it), raw bytes (kind "bytes", holding the byte count) or a question *)
(* catalog (kind "csv", holding the rows csv.DictReader returns for it).   *)
(* The text of an exception is a sequence of tokens.                       *)
(***************************************************************************)
EXTENDS Integers, Sequences, FiniteSets, TLC

VARIABLES
    bucket,   \* the S3 bucket: object key -> stored object
    now,      \* the clock datetime.utcnow() reads
    uuids,    \* number of uuid4() names used so far
    resp,     \* the invocation whose response is in flight to the caller
    hist,     \* history per document key (for stating properties only)
    log_level,\* the handlers' module-level log_level (LOG_LEVEL)
    inv       \* the save invocations in progress, when they run concurrently

vars == <<bucket, now, uuids, resp, hist, log_level, inv>>

----------------------------------------------------------------------------
(* Bounds of the model *)

MaxTime == 3      \* clock readings: at most MaxTime - 1 saves reach storage
MaxFiles == 2     \* length of a request's files list
MaxFaults == 1    \* storage calls that fail within one invocation
MaxRows == 2      \* rows of a question catalog
MaxOptionLen == 3 \* characters of an options cell

----------------------------------------------------------------------------
(* Strings and Python values *)

Str1(c) == <<c>>

\* None as the value of an identifier-typed field of a response body
None == <<"None">>

EmptyDict == [k \in {} |-> <<>>]

Has(d, k) == k \in DOMAIN d

\* A JSON null (None), and the test that a value is a dict
Null == [null |-> TRUE]

IsDict(v) == ~Has(v, "null")

\* str.isalnum() on one character
AlnumChars == {"a", "b", "f", "g", "1"}

IsAlnum(c) == c \in AlnumChars

----------------------------------------------------------------------------
(* Identifier and file-name filters *)

\* save_response: ''.join(c for c in x if c.isalnum() or c in '-_')
SanitizeId(s) == SelectSeq(s, LAMBDA c : IsAlnum(c) \/ c \in {"-", "_"})

\* get_response, company_id: ''.join(c for c in x if c.isalnum() or c in '-_')
SanitizeCompanyIdGet(s) == SelectSeq(s, LAMBDA c : IsAlnum(c) \/ c \in {"-", "_"})

\* get_response, employee_id: ''.join(c for c in x if c.isalnum() or c in '-_.')
SanitizeEmployeeIdGet(s) ==
    SelectSeq(s, LAMBDA c : IsAlnum(c) \/ c \in {"-", "_", "."})

\* save_response: ''.join(c for c in filename if c.isalnum() or c in '.-_')
SafeFilename(s) == SelectSeq(s, LAMBDA c : IsAlnum(c) \/ c \in {".", "-", "_"})

----------------------------------------------------------------------------
(* Storage paths.  The literal parts of the f-strings are single tokens.   *)

CompanyKey(cid) == <<"companies/">> \o cid \o <<"/form.json">>

EmployeeKey(cid, eid) ==
    <<"companies/">> \o cid \o <<"/employees/">> \o eid \o <<".json">>

JsonKey(type, cid, eid) ==
    IF type = "company" THEN CompanyKey(cid) ELSE EmployeeKey(cid, eid)

\* FileKey that keeps the files of a company's employees in one place
FileKeyPerCompany(cid, eid, name) ==
    <<"companies/">> \o cid \o <<"/files/">> \o name

FileKey(cid, eid, name) ==
    <<"companies/">> \o cid \o <<"/employees/">> \o eid \o <<"/files/">> \o name

----------------------------------------------------------------------------
(* Object Store Adapter (S3Utils).  A call that the store fails raises.     *)

Put(b, key, obj) ==
    [k \in DOMAIN b \cup {key} |-> IF k = key THEN obj ELSE b[k]]

\* json.dumps(data) as stored text, and json.loads of a stored object
JsonDumps(data) == [kind |-> "json", value |-> data]

BytesObject(size, ctype) == [kind |-> "bytes", size |-> size, content_type |-> ctype]

\* What goes wrong in a read: nothing, the store refuses the call, or the
\* text of the stored object is no JSON from character 0 or from character
\* 404 on
NoFault == "none"

ClientFaults == {"AccessDenied"}

CorruptionFaults == {"CorruptJson", "CorruptJsonAt404"}

NoError == <<>>

\* str(e) of a botocore ClientError
ClientErrorText(code, operation, message) ==
    <<"An error occurred (", code, ") when calling the ", operation,
      " operation: ", message>>

\* str(e) of a json.JSONDecodeError at character pos of a one-line text
JsonDecodeErrorText(pos) ==
    <<"Expecting value: line 1 column ", ToString(pos + 1), " (char ",
      ToString(pos), ")">>

ErrorText(fault, operation) ==
    CASE fault = "AccessDenied" ->
           ClientErrorText("AccessDenied", operation, "Access Denied")
      [] fault = "InternalError" ->
           ClientErrorText("InternalError", operation,
                           "We encountered an internal error. Please try again.")
      [] fault = "CorruptJson" -> JsonDecodeErrorText(0)
      [] fault = "CorruptJsonAt404" -> JsonDecodeErrorText(404)
      [] fault = "NotUtf8" ->
           <<"'utf-8' codec can't decode byte 0xff in position ", "0",
             ": invalid start byte">>

\* S3Utils.read_json_file: NoSuchKey gives {}, any other failure raises
ReadJsonFile(b, key, fault) ==
    IF fault \in ClientFaults
    THEN [raised |-> TRUE, error |-> ErrorText(fault, "GetObject"),
          data |-> EmptyDict]
    ELSE IF key \notin DOMAIN b
    THEN [raised |-> FALSE, error |-> NoError, data |-> EmptyDict]
    ELSE IF fault \in CorruptionFaults
    THEN [raised |-> TRUE, error |-> ErrorText(fault, "GetObject"),
          data |-> EmptyDict]
    ELSE IF b[key].kind = "json"
    THEN [raised |-> FALSE, error |-> NoError, data |-> b[key].value]
    ELSE IF b[key].kind = "bytes"
    THEN [raised |-> TRUE, error |-> ErrorText("NotUtf8", "GetObject"),
          data |-> EmptyDict]
    ELSE [raised |-> TRUE, error |-> ErrorText("CorruptJson", "GetObject"),
          data |-> EmptyDict]

\* ReadCsvFile that, like read_json_file, takes a missing object for an
\* empty one
ReadCsvFileAbsentIsEmpty(b, key, fault) ==
    IF fault \in ClientFaults
    THEN [outcome |-> "Exception", error |-> ErrorText(fault, "GetObject"),
          rows |-> <<>>]
    ELSE IF key \notin DOMAIN b
    THEN [outcome |-> "ok", error |-> NoError, rows |-> <<>>]
    ELSE IF b[key].kind = "csv"
    THEN [outcome |-> "ok", error |-> NoError, rows |-> b[key].rows]
    ELSE [outcome |-> "Exception", error |-> ErrorText("NotUtf8", "GetObject"),
          rows |-> <<>>]

\* S3Utils.read_csv_file: NoSuchKey raises FileNotFoundError, any other
\* failure is raised as it is; the rows are those of csv.DictReader
ReadCsvFile(b, key, fault) ==
    IF fault \in ClientFaults
    THEN [outcome |-> "Exception", error |-> ErrorText(fault, "GetObject"),
          rows |-> <<>>]
    ELSE IF key \notin DOMAIN b
    THEN [outcome |-> "FileNotFoundError",
          error |-> <<"Questions file not found: ">> \o key, rows |-> <<>>]
    ELSE IF b[key].kind = "csv"
    THEN [outcome |-> "ok", error |-> NoError, rows |-> b[key].rows]
    ELSE IF b[key].kind = "bytes"
    THEN [outcome |-> "Exception", error |-> ErrorText("NotUtf8", "GetObject"),
          rows |-> <<>>]
    ELSE [outcome |-> "ok", error |-> NoError, rows |-> <<>>]

\* str(e) of what a failed put_object raises
PutErrorText == ErrorText("InternalError", "PutObject")

\* WriteJsonFile that keeps the fields of the stored document that the new
\* one does not have (a field-wise merge in place of an overwrite)
WriteJsonFileMerging(b, key, data, fault) ==
    IF fault
    THEN [raised |-> TRUE, bucket |-> b]
    ELSE IF key \in DOMAIN b /\ b[key].kind = "json"
    THEN [raised |-> FALSE,
          bucket |-> Put(b, key, JsonDumps(data @@ b[key].value))]
    ELSE [raised |-> FALSE, bucket |-> Put(b, key, JsonDumps(data))]

\* S3Utils.write_json_file: put_object of the serialized document, or raise
WriteJsonFile(b, key, data, fault) ==
    IF fault
    THEN [raised |-> TRUE, bucket |-> b]
    ELSE [raised |-> FALSE, bucket |-> Put(b, key, JsonDumps(data))]

\* S3Utils.upload_file: put_object of the bytes, or raise
UploadFile(b, key, size, ctype, fault) ==
    IF fault
    THEN [raised |-> TRUE, bucket |-> b]
    ELSE [raised |-> FALSE, bucket |-> Put(b, key, BytesObject(size, ctype))]

----------------------------------------------------------------------------
(* Response Envelope Builder (lambda_response) *)

DefaultHeaders ==
    ("Content-Type" :> "application/json")
    @@ ("Access-Control-Allow-Origin" :> "*")
    @@ ("Access-Control-Allow-Headers" :>
          "Content-Type,X-Amz-Date,Authorization,X-Api-Key,X-Amz-Security-Token")
    @@ ("Access-Control-Allow-Methods" :> "GET,POST,OPTIONS")

\* headers=None, or an empty dict
NoHeaders == [k \in {} |-> ""]

\* LambdaResponse in which the defaults win over the caller's headers
LambdaResponseDefaultsWin(status_code, body, headers) ==
    [statusCode |-> status_code,
     headers |-> DefaultHeaders @@ headers,
     body |-> JsonDumps(body)]

\* lambda_response: default_headers.update(headers), body serialized
LambdaResponse(status_code, body, headers) ==
    [statusCode |-> status_code,
     headers |-> headers @@ DefaultHeaders,
     body |-> JsonDumps(body)]

\* The fixed text a 500 body carries in place of the error text
NoDetails == <<"Enable DEBUG logging for details">>

\* 'error_details': str(e) if log_level == 'DEBUG' else the fixed text
ErrorDetails(e) == IF log_level = "DEBUG" THEN e ELSE NoDetails

----------------------------------------------------------------------------
(* base64.b64decode (non-strict): characters outside the alphabet are      *)
(* skipped, a pad sequence that completes a quad ends the data, and data   *)
(* that ends inside a quad raises.  The result is the number of bytes.     *)

B64DataChars == {"Q", "U"}

RECURSIVE B64Scan(_, _, _, _, _)
B64Scan(s, i, quad, pads, n) ==
    IF i > Len(s)
    THEN [ok |-> quad = 0, size |-> n]
    ELSE IF s[i] = "="
    THEN IF quad >= 2 /\ quad + pads + 1 >= 4
         THEN [ok |-> TRUE, size |-> n]
         ELSE B64Scan(s, i + 1, quad, IF quad >= 2 THEN pads + 1 ELSE pads, n)
    ELSE IF s[i] \notin B64DataChars
    THEN B64Scan(s, i + 1, quad, pads, n)
    ELSE B64Scan(s, i + 1, (quad + 1) % 4, 0, IF quad = 0 THEN n ELSE n + 1)

B64Decode(s) == B64Scan(s, 1, 0, 0, 0)

----------------------------------------------------------------------------
(* Save Response: request body extraction *)

DictGet(d, k, default) == IF Has(d, k) THEN d[k] ELSE default

\* The text of a body field, by what the decoders make of it:
\*   "json"      JSON text of the object `value`
\*   "jsonarray" valid JSON that is not an object
\*   "invalid"   text that is not JSON
\*   "empty"     the empty string
\*   "b64"       base64 text encoding the body `of`
\*   "none"      no text: the body field is None
JsonBody(d) == [text |-> "json", value |-> d]
EmptyBody == [text |-> "empty"]
NoneBody == [text |-> "none"]
InvalidBody == [text |-> "invalid"]
ArrayBody == [text |-> "jsonarray"]
B64Body(inner) == [text |-> "b64", of |-> inner]

\* ParseRequestBody that, finding no request data, goes on with the event
\* itself, and that takes a body that is no JSON for an empty one
ParseRequestBodyLenient(event) ==
    IF Has(event, "body")
    THEN LET flagged == DictGet(event, "isBase64Encoded", FALSE)
             body == IF flagged /\ event.body.text = "b64"
                     THEN event.body.of ELSE event.body
         IN  IF body.text = "json"
             THEN [outcome |-> "ok", data |-> body.value, message |-> ""]
             ELSE IF body.text = "jsonarray"
             THEN [outcome |-> "AttributeError", data |-> EmptyDict,
                   message |-> "'list' object has no attribute 'keys'"]
             ELSE [outcome |-> "ok", data |-> EmptyDict, message |-> ""]
    ELSE IF Has(event, "data") /\ IsDict(event.data)
    THEN [outcome |-> "ok", data |-> event.data, message |-> ""]
    ELSE IF Has(event, "requestData") /\ IsDict(event.requestData)
    THEN [outcome |-> "ok", data |-> event.requestData, message |-> ""]
    ELSE IF Has(event, "payload") /\ IsDict(event.payload)
    THEN [outcome |-> "ok", data |-> event.payload, message |-> ""]
    ELSE [outcome |-> "ok", data |-> event, message |-> ""]

\* parse_request_body; outcome "ok", or the exception class that leaves it
ParseRequestBody(event) ==
    IF Has(event, "body")
    THEN LET flagged == DictGet(event, "isBase64Encoded", FALSE)
             decodes == ~flagged \/ event.body.text \in {"b64", "empty"}
             body == IF flagged /\ event.body.text = "b64"
                     THEN event.body.of ELSE event.body
         IN  IF ~decodes
             THEN [outcome |-> "ValueError", data |-> EmptyDict,
                   message |-> "Failed to decode base64 encoded body"]
             ELSE IF body.text \in {"empty", "none"}
             THEN [outcome |-> "ok", data |-> EmptyDict, message |-> ""]
             ELSE IF body.text = "json"
             THEN [outcome |-> "ok", data |-> body.value, message |-> ""]
             ELSE IF body.text = "jsonarray"
             THEN [outcome |-> "AttributeError", data |-> EmptyDict,
                   message |-> "'list' object has no attribute 'keys'"]
             ELSE [outcome |-> "ValueError", data |-> EmptyDict,
                   message |-> "Request body must be valid JSON"]
    ELSE IF Has(event, "type") /\ Has(event, "company_id")
    THEN [outcome |-> "ok", data |-> event, message |-> ""]
    ELSE IF Has(event, "data") /\ IsDict(event.data)
    THEN [outcome |-> "ok", data |-> event.data, message |-> ""]
    ELSE IF Has(event, "requestData") /\ IsDict(event.requestData)
    THEN [outcome |-> "ok", data |-> event.requestData, message |-> ""]
    ELSE IF Has(event, "payload") /\ IsDict(event.payload)
    THEN [outcome |-> "ok", data |-> event.payload, message |-> ""]
    ELSE [outcome |-> "ValueError", data |-> EmptyDict,
          message |-> "No valid request data found"]

----------------------------------------------------------------------------
(* Save Response: validation, document, attachments *)

\* SaveValidate with the membership test of lines 132-137 left out
SaveValidateAnyType(rd) ==
    IF ~Has(rd, "type") \/ rd.type = ""
    THEN "Missing type"
    ELSE IF ~Has(rd, "company_id") \/ rd.company_id = <<>>
    THEN "Missing company_id"
    ELSE IF rd.type = "employee"
            /\ (~Has(rd, "employee_id") \/ rd.employee_id = <<>>)
    THEN "Missing employee_id"
    ELSE "ok"

\* lines 125-155: the 400 a request is answered with, or "ok"
SaveValidate(rd) ==
    IF ~Has(rd, "type") \/ rd.type = ""
    THEN "Missing type"
    ELSE IF rd.type \notin {"company", "employee"}
    THEN "Invalid type"
    ELSE IF ~Has(rd, "company_id") \/ rd.company_id = <<>>
    THEN "Missing company_id"
    ELSE IF rd.type = "employee"
            /\ (~Has(rd, "employee_id") \/ rd.employee_id = <<>>)
    THEN "Missing employee_id"
    ELSE "ok"

\* lines 147-160: employee_id after validation and sanitization
SaveEmployeeId(rd) ==
    IF rd.type = "employee" THEN SanitizeId(rd.employee_id) ELSE None

\* lines 178-182
SaveJsonKey(rd) ==
    JsonKey(rd.type, SanitizeId(rd.company_id), SaveEmployeeId(rd))

\* lines 166-176: the document, before the existing one is looked at
ResponseData(rd, timestamp) ==
    LET base == [type |-> rd.type,
                 company_id |-> SanitizeId(rd.company_id),
                 responses |-> DictGet(rd, "responses", EmptyDict),
                 submitted_at |-> timestamp,
                 updated_at |-> timestamp]
        eid == SaveEmployeeId(rd)
    IN  IF eid # None /\ eid # <<>>
        THEN [employee_id |-> eid] @@ base
        ELSE base

\* PreserveSubmittedAt that never carries the existing value over
PreserveNothing(doc, existing) == doc

\* PreserveSubmittedAt that also keeps the existing answers the request
\* does not give (a field-wise merge)
PreserveAndMerge(doc, existing) ==
    IF ~existing.raised /\ Has(existing.data, "submitted_at")
    THEN [doc EXCEPT !.submitted_at = existing.data.submitted_at,
                     !.responses = doc.responses @@ existing.data.responses]
    ELSE doc

\* PreserveSubmittedAt that carries updated_at over as well
PreserveBothTimes(doc, existing) ==
    IF ~existing.raised /\ Has(existing.data, "submitted_at")
    THEN [doc EXCEPT !.submitted_at = existing.data.submitted_at,
                     !.updated_at = existing.data.updated_at]
    ELSE doc

\* PreserveSubmittedAt that leaves submitted_at unset when the read failed
PreserveOrUnset(doc, existing) ==
    IF existing.raised
    THEN [doc EXCEPT !.submitted_at = 0]
    ELSE IF Has(existing.data, "submitted_at")
    THEN [doc EXCEPT !.submitted_at = existing.data.submitted_at]
    ELSE doc

\* PreserveSubmittedAt that puts the carried value in updated_at
PreserveIntoUpdatedAt(doc, existing) ==
    IF ~existing.raised /\ Has(existing.data, "submitted_at")
    THEN [doc EXCEPT !.updated_at = existing.data.submitted_at]
    ELSE doc

\* lines 185-192: submitted_at carried over from the existing document
PreserveSubmittedAt(doc, existing) ==
    IF ~existing.raised /\ Has(existing.data, "submitted_at")
    THEN [doc EXCEPT !.submitted_at = existing.data.submitted_at]
    ELSE doc

\* f'upload_{uuid.uuid4()}': the n-th fresh name
UuidName(n) == <<"upload_", ToString(n)>>

CallRec(op, key, ok) == [op |-> op, key |-> key, ok |-> ok]

\* lines 205-244, one iteration.  st: bucket, uuids, calls (the invocation's
\* storage calls so far), uploaded, bound (filename has been assigned),
\* crashed (an exception left the loop).  flt: the calls that fail, by position.
ProcessFile(st, fd, cid, eid, timestamp, flt) ==
    IF st.crashed
    THEN st
    ELSE IF ~IsDict(fd)
    THEN \* file_data.get raises; the handler's message reads filename
         IF st.bound THEN st ELSE [st EXCEPT !.crashed = TRUE]
    ELSE LET named == Has(fd, "filename")
             filename == IF named THEN fd.filename ELSE UuidName(st.uuids + 1)
             u1 == IF named THEN st.uuids ELSE st.uuids + 1
             ctype == DictGet(fd, "content_type", "application/octet-stream")
             content == DictGet(fd, "content", <<>>)
             decoded == B64Decode(content)
             \* a generated name consists of kept characters only
             safe == IF named THEN SafeFilename(filename) ELSE filename
             safe_filename == IF safe = <<>> THEN UuidName(u1 + 1) ELSE safe
             u2 == IF safe = <<>> THEN u1 + 1 ELSE u1
             file_key == FileKey(cid, eid, safe_filename)
             callno == Len(st.calls) + 1
             up == UploadFile(st.bucket, file_key, decoded.size, ctype,
                              callno \in flt)
             st1 == [st EXCEPT !.bound = TRUE]
         IN  IF content = <<>> \/ ~decoded.ok
             THEN [st1 EXCEPT !.uuids = u1]
             ELSE IF up.raised
             THEN [st1 EXCEPT !.uuids = u2,
                              !.calls = Append(@, CallRec("put", file_key, FALSE))]
             ELSE [st1 EXCEPT
                     !.uuids = u2,
                     !.bucket = up.bucket,
                     !.calls = Append(@, CallRec("put", file_key, TRUE)),
                     !.uploaded = Append(@,
                         [filename |-> safe_filename,
                          original_filename |-> filename,
                          content_type |-> ctype,
                          size |-> decoded.size,
                          uploaded_at |-> timestamp,
                          file_key |-> file_key])]

RECURSIVE ProcessFiles(_, _, _, _, _, _, _)
ProcessFiles(st, files, i, cid, eid, timestamp, flt) ==
    IF i > Len(files)
    THEN st
    ELSE ProcessFiles(ProcessFile(st, files[i], cid, eid, timestamp, flt),
                      files, i + 1, cid, eid, timestamp, flt)

\* The value a handler returns, with what it did to the store:
\*   key   the document key it derived (NoKey when it returned before that)
\*   calls its storage calls, in order
NoKey == <<>>

\*   exc   the text of the exception caught at the handler's boundary
SaveResult(status, error, body, b, u, readClock, key, calls, exc) ==
    [status |-> status, error |-> error, body |-> body, bucket |-> b,
     uuids |-> u, readClock |-> readClock, key |-> key, calls |-> calls,
     exc |-> exc, headers |-> LambdaResponse(status, body, NoHeaders).headers]

\* lines 257-267
SaveSuccessBody(rd, timestamp, key, uploaded) ==
    [message |-> "Response saved successfully",
     type |-> rd.type,
     company_id |-> SanitizeId(rd.company_id),
     employee_id |-> SaveEmployeeId(rd),
     response_count |-> Cardinality(DOMAIN DictGet(rd, "responses", EmptyDict)),
     uploaded_files |-> Len(uploaded),
     saved_at |-> timestamp,
     storage_path |-> key]

\* InternalError that puts the error text in the body whatever log_level is
InternalErrorVerbose(message, e) ==
    [error |-> "Internal server error", message |-> message,
     error_details |-> e]

\* lines 269-276: the 500 body for the exception with text e
InternalError(message, e) ==
    [error |-> "Internal server error", message |-> message,
     error_details |-> ErrorDetails(e)]

\* str(e) of the UnboundLocalError that reading filename at line 243 raises
UnboundFilenameText ==
    <<"cannot access local variable 'filename' where it is not associated with a value">>

\* The 500 a save returns for the exception with text e
SaveFailure(e, b, u, readClock, key, calls) ==
    SaveResult(500, "Internal server error",
               InternalError("Failed to save response", e),
               b, u, readClock, key, calls, e)

\* AcceptedFiles that takes the files of a request of either type
AcceptedFilesAnyType(rd) == DictGet(rd, "files", <<>>)

\* lines 200-202, 245-246: the files the loop goes through; those of a
\* company request are not looked at
AcceptedFiles(rd) ==
    IF rd.type = "employee" THEN DictGet(rd, "files", <<>>) ELSE <<>>

\* lines 164-267, for a request that passed validation
SaveStore(rd, b, timestamp, u, flt) ==
    LET cid == SanitizeId(rd.company_id)
        eid == SaveEmployeeId(rd)
        json_key == SaveJsonKey(rd)
        existing == ReadJsonFile(b, json_key,
                                 IF 1 \in flt THEN "AccessDenied" ELSE NoFault)
        response_data == PreserveSubmittedAt(ResponseData(rd, timestamp), existing)
        w1 == WriteJsonFile(b, json_key, response_data, 2 \in flt)
        calls1 == <<CallRec("get", json_key, ~existing.raised),
                    CallRec("put", json_key, ~w1.raised)>>
    IN  IF w1.raised
        THEN SaveFailure(PutErrorText, b, u, TRUE, json_key, calls1)
        ELSE
        LET files == AcceptedFiles(rd)
            st0 == [bucket |-> w1.bucket, uuids |-> u, calls |-> calls1,
                    uploaded |-> <<>>, bound |-> FALSE, crashed |-> FALSE]
            st == IF files # <<>>
                  THEN ProcessFiles(st0, files, 1, cid, eid, timestamp, flt)
                  ELSE st0
            w2 == WriteJsonFile(st.bucket, json_key,
                                [files |-> st.uploaded] @@ response_data,
                                (Len(st.calls) + 1) \in flt)
            calls2 == Append(st.calls, CallRec("put", json_key, ~w2.raised))
        IN  IF st.crashed
            THEN SaveFailure(UnboundFilenameText, st.bucket, st.uuids, TRUE,
                             json_key, st.calls)
            ELSE IF st.uploaded = <<>>
            THEN SaveResult(200, "",
                            SaveSuccessBody(rd, timestamp, json_key, st.uploaded),
                            st.bucket, st.uuids, TRUE, json_key, st.calls,
                            NoError)
            ELSE IF w2.raised
            THEN SaveFailure(PutErrorText, st.bucket, st.uuids, TRUE,
                             json_key, calls2)
            ELSE SaveResult(200, "",
                            SaveSuccessBody(rd, timestamp, json_key, st.uploaded),
                            w2.bucket, st.uuids, TRUE, json_key, calls2,
                            NoError)

\* save_response.lambda_handler
SaveHandler(event, b, timestamp, u, flt) ==
    LET parsed == ParseRequestBody(event)
        rd == parsed.data
        verdict == SaveValidate(rd)
    IN  IF parsed.outcome = "ValueError"
        THEN SaveResult(400, "Invalid request body",
                        [error |-> "Invalid request body",
                         message |-> parsed.message],
                        b, u, FALSE, NoKey, <<>>, NoError)
        ELSE IF parsed.outcome # "ok"
        THEN SaveFailure(<<parsed.message>>, b, u, FALSE, NoKey, <<>>)
        ELSE IF verdict # "ok"
        THEN SaveResult(400, verdict, [error |-> verdict], b, u, FALSE,
                        NoKey, <<>>, NoError)
        ELSE SaveStore(rd, b, timestamp, u, flt)

----------------------------------------------------------------------------
(* Get Response *)

\* get_response.parse_query_params
ParseQueryParams(event) ==
    IF Has(event, "queryStringParameters")
       /\ IsDict(event.queryStringParameters)
       /\ DOMAIN event.queryStringParameters # {}
    THEN event.queryStringParameters
    ELSE IF Has(event, "query")
    THEN event.query
    ELSE EmptyDict

\* GetValidate with the employee_id test of lines 91-96 left out
GetValidateNoEmployeeCheck(qp) ==
    IF ~Has(qp, "type") \/ qp.type = ""
    THEN "Missing type parameter"
    ELSE IF qp.type \notin {"company", "employee"}
    THEN "Invalid type parameter"
    ELSE IF ~Has(qp, "company_id") \/ qp.company_id = <<>>
    THEN "Missing company_id parameter"
    ELSE "ok"

\* lines 69-96: the 400 a request is answered with, or "ok"
GetValidate(qp) ==
    IF ~Has(qp, "type") \/ qp.type = ""
    THEN "Missing type parameter"
    ELSE IF qp.type \notin {"company", "employee"}
    THEN "Invalid type parameter"
    ELSE IF ~Has(qp, "company_id") \/ qp.company_id = <<>>
    THEN "Missing company_id parameter"
    ELSE IF qp.type = "employee"
            /\ (~Has(qp, "employee_id") \/ qp.employee_id = <<>>)
    THEN "Missing employee_id parameter"
    ELSE "ok"

\* lines 67, 100-101: employee_id as the handler carries it
GetEmployeeId(qp) ==
    IF ~Has(qp, "employee_id")
    THEN None
    ELSE SanitizeEmployeeIdGet(qp.employee_id)

\* lines 105-109
GetJsonKey(qp) ==
    JsonKey(qp.type, SanitizeCompanyIdGet(qp.company_id), GetEmployeeId(qp))

\* str.lower() on one token of an error text
LowerCase(token) ==
    CASE token = "NoSuchKey" -> "nosuchkey"
      [] token = "Not Found" -> "not found"
      [] OTHER -> token

\* lines 132-133: 'nosuchkey', 'not found' or '404' occurs in str(e).lower()
MentionsNotFound(error) ==
    \E i \in 1..Len(error) : LowerCase(error[i]) \in {"nosuchkey", "not found", "404"}

\* A timestamp field that is None
NoTime == 0

GetResult(status, error, body, key, calls, exc) ==
    [status |-> status, error |-> error, body |-> body, key |-> key,
     calls |-> calls, exc |-> exc,
     headers |-> LambdaResponse(status, body, NoHeaders).headers]

\* str(e) of the AttributeError that None.get raises
NoneGetText == <<"'NoneType' object has no attribute 'get'">>

\* lines 149-156: the 500 a get returns for the exception with text e
GetFailure(e, key, calls) ==
    GetResult(500, "Internal server error",
              InternalError("Failed to get response", e), key, calls, e)

\* get_response.lambda_handler
GetHandler(event, b, fault) ==
    LET qp == ParseQueryParams(event)
        verdict == GetValidate(qp)
        json_key == GetJsonKey(qp)
        read == ReadJsonFile(b, json_key, fault)
        calls == <<CallRec("get", json_key, ~read.raised)>>
        ident == [type |-> qp.type,
                  company_id |-> SanitizeCompanyIdGet(qp.company_id),
                  employee_id |-> GetEmployeeId(qp),
                  storage_path |-> json_key]
    IN  IF ~IsDict(qp)
        THEN GetFailure(NoneGetText, NoKey, <<>>)
        ELSE IF verdict # "ok"
        THEN GetResult(400, verdict, [error |-> verdict], NoKey, <<>>, NoError)
        ELSE IF ~read.raised
        THEN GetResult(200, "",
                       [found |-> TRUE,
                        responses |-> DictGet(read.data, "responses", EmptyDict),
                        submitted_at |-> DictGet(read.data, "submitted_at", NoTime),
                        updated_at |-> DictGet(read.data, "updated_at", NoTime),
                        files |-> DictGet(read.data, "files", <<>>)] @@ ident,
                       json_key, calls, NoError)
        ELSE IF MentionsNotFound(read.error)
        THEN GetResult(404, "", [found |-> FALSE] @@ ident, json_key, calls,
                       NoError)
        ELSE GetFailure(read.error, json_key, calls)

----------------------------------------------------------------------------
(* Get Questions: extraction of the question type *)

\* A value that Python takes for true: a non-empty dict
TruthyDict(v) == IsDict(v) /\ DOMAIN v # {}

\* urllib.parse.parse_qs(query)['type'][0].  A query string is a sequence
\* of [k, v] pairs; pairs with a blank value are dropped.  "" when parse_qs
\* has no 'type'.
QueryStringType(query) ==
    LET hits == SelectSeq(query, LAMBDA pair : pair.k = "type" /\ pair.v # "")
    IN  IF hits = <<>> THEN "" ELSE hits[1].v

\* One method of extract_question_type_from_event: the type it returns,
\* or "" when it goes on to the next method
TypeFromQueryStringParameters(event) ==
    IF Has(event, "queryStringParameters")
       /\ TruthyDict(event.queryStringParameters)
    THEN DictGet(event.queryStringParameters, "type", "")
    ELSE ""

\* lines 52-59; the first value is returned whatever it is
TypeFromMultiValue(event) ==
    IF Has(event, "multiValueQueryStringParameters")
       /\ TruthyDict(event.multiValueQueryStringParameters)
       /\ Has(event.multiValueQueryStringParameters, "type")
       /\ event.multiValueQueryStringParameters.type # <<>>
    THEN [returns |-> TRUE, type |-> event.multiValueQueryStringParameters.type[1]]
    ELSE [returns |-> FALSE, type |-> ""]

TypeFromRawQueryString(event) ==
    IF Has(event, "rawQueryString")
    THEN QueryStringType(event.rawQueryString)
    ELSE ""

TypeFromPathParameters(event) ==
    IF Has(event, "pathParameters") /\ TruthyDict(event.pathParameters)
    THEN DictGet(event.pathParameters, "type", "")
    ELSE ""

\* lines 92-106
TypeFromRequestContext(event) ==
    IF Has(event, "requestContext")
       /\ IsDict(event.requestContext)
       /\ Has(event.requestContext, "http")
       /\ Has(event.requestContext.http, "queryString")
    THEN QueryStringType(event.requestContext.http.queryString)
    ELSE ""

\* lines 109-121; a path is [base, query], query being what follows the
\* first '?', or [base] when it has no '?'
TypeFromPath(event) ==
    IF Has(event, "path") /\ Has(event.path, "query")
    THEN QueryStringType(event.path.query)
    ELSE ""

\* extract_question_type_from_event; "" stands for None
ExtractQuestionTypeFromEvent(event) ==
    IF ~IsDict(event) \/ DOMAIN event = {}
    THEN ""
    ELSE IF TypeFromQueryStringParameters(event) # ""
    THEN TypeFromQueryStringParameters(event)
    ELSE IF TypeFromMultiValue(event).returns
    THEN TypeFromMultiValue(event).type
    ELSE IF TypeFromRawQueryString(event) # ""
    THEN TypeFromRawQueryString(event)
    ELSE IF TypeFromPathParameters(event) # ""
    THEN TypeFromPathParameters(event)
    ELSE IF Has(event, "type")
    THEN event.type
    ELSE IF TypeFromRequestContext(event) # ""
    THEN TypeFromRequestContext(event)
    ELSE TypeFromPath(event)

----------------------------------------------------------------------------
(* Get Questions: the rows of a catalog *)

Whitespace == {" "}

\* str.strip()
Strip(s) ==
    LET kept == {i \in 1..Len(s) : s[i] \notin Whitespace}
    IN  IF kept = {}
        THEN <<>>
        ELSE SubSeq(s, CHOOSE i \in kept : \A j \in kept : i <= j,
                       CHOOSE i \in kept : \A j \in kept : j <= i)

\* str.lower() on one character
LowerChar(c) ==
    CASE c = "N" -> "n" [] c = "T" -> "t" [] c = "Y" -> "y"
      [] c = "E" -> "e" [] c = "S" -> "s" [] c = "O" -> "o"
      [] c = "U" -> "u" [] c = "L" -> "l"
      [] OTHER -> c

Lower(s) == [i \in 1..Len(s) |-> LowerChar(s[i])]

\* str(v) of a cell: a missing cell of a short row is None
StrOf(v) == IF v = None THEN <<"N", "o", "n", "e">> ELSE v

\* str.split(sep)
RECURSIVE Split(_, _)
Split(s, sep) ==
    LET at == {i \in 1..Len(s) : s[i] = sep}
    IN  IF at = {}
        THEN <<s>>
        ELSE LET first == CHOOSE i \in at : \A j \in at : i <= j
             IN  <<SubSeq(s, 1, first - 1)>>
                 \o Split(SubSeq(s, first + 1, Len(s)), sep)

Contains(s, c) == \E i \in 1..Len(s) : s[i] = c

\* [opt.strip() for opt in parts if opt.strip()]
StrippedNonEmpty(parts) ==
    LET stripped == [i \in 1..Len(parts) |-> Strip(parts[i])]
    IN  SelectSeq(stripped, LAMBDA opt : opt # <<>>)

\* ParseOptions that looks for a pipe before it looks for a semicolon
ParseOptionsPipeFirst(cell) ==
    LET options_str == Strip(StrOf(cell))
    IN  IF options_str = <<>>
           \/ Lower(options_str) \in {<<"n", "o", "n", "e">>, <<"n", "u", "l", "l">>}
        THEN <<>>
        ELSE IF Contains(options_str, "|")
        THEN StrippedNonEmpty(Split(options_str, "|"))
        ELSE IF Contains(options_str, ";")
        THEN StrippedNonEmpty(Split(options_str, ";"))
        ELSE <<options_str>>

\* lines 210-218
ParseOptions(cell) ==
    LET options_str == Strip(StrOf(cell))
    IN  IF options_str = <<>>
           \/ Lower(options_str) \in {<<"n", "o", "n", "e">>, <<"n", "u", "l", "l">>}
        THEN <<>>
        ELSE IF Contains(options_str, ";")
        THEN StrippedNonEmpty(Split(options_str, ";"))
        ELSE IF Contains(options_str, "|")
        THEN StrippedNonEmpty(Split(options_str, "|"))
        ELSE <<options_str>>

TrueWords == {<<"t", "r", "u", "e">>, <<"1">>, <<"y", "e", "s">>}

\* lines 200-218: the question record of one row
ProcessQuestion(question) ==
    [id |-> Strip(StrOf(DictGet(question, "id", <<>>))),
     text |-> Strip(StrOf(DictGet(question, "text", <<>>))),
     type |-> Strip(StrOf(DictGet(question, "type", <<"t", "e", "x", "t">>))),
     section |-> Strip(StrOf(DictGet(question, "section", <<>>))),
     required |-> Lower(Strip(StrOf(DictGet(question, "required", <<>>))))
                    \in TrueWords,
     options |-> ParseOptions(DictGet(question, "options", <<>>))]

\* ProcessQuestions that looks at the id cell as it stands in the row
ProcessQuestionsUntrimmed(questions) ==
    LET has_id == SelectSeq(questions,
                            LAMBDA q : DictGet(q, "id", <<>>) # <<>>)
    IN  [i \in 1..Len(has_id) |-> ProcessQuestion(has_id[i])]

\* lines 197-227: only the records with an id are kept, in catalog order
ProcessQuestions(questions) ==
    SelectSeq([i \in 1..Len(questions) |-> ProcessQuestion(questions[i])],
              LAMBDA q : q.id # <<>>)

----------------------------------------------------------------------------
(* Get Questions: the handler *)

\* line 185
CsvKey(question_type) == <<"questions/", question_type, "_questions.csv">>

QuestionsResult(status, error, body, key, calls, exc) ==
    [status |-> status, error |-> error, body |-> body, key |-> key,
     calls |-> calls, exc |-> exc,
     headers |-> LambdaResponse(status, body, NoHeaders).headers]

\* lines 265-272: the 500 body names the field debug_info
QuestionsFailure(e, key, calls) ==
    QuestionsResult(500, "Internal server error",
                    [error |-> "Internal server error",
                     message |-> "Failed to retrieve questions",
                     debug_info |-> ErrorDetails(e)],
                    key, calls, e)

\* get_questions.lambda_handler
QuestionsHandler(event, b, fault) ==
    LET question_type == ExtractQuestionTypeFromEvent(event)
        csv_key == CsvKey(question_type)
        read == ReadCsvFile(b, csv_key, fault)
        calls == <<CallRec("get", csv_key, read.outcome # "Exception")>>
        processed_questions == ProcessQuestions(read.rows)
    IN  IF question_type = ""
        THEN QuestionsResult(400, "Missing required parameter: type",
                             [error |-> "Missing required parameter: type"],
                             NoKey, <<>>, NoError)
        ELSE IF question_type \notin {"company", "employee"}
        THEN QuestionsResult(400, "Invalid type parameter",
                             [error |-> "Invalid type parameter",
                              received_type |-> question_type],
                             NoKey, <<>>, NoError)
        ELSE IF read.outcome = "FileNotFoundError"
        THEN QuestionsResult(404, "Questions file not found",
                             [error |-> "Questions file not found",
                              csv_key |-> csv_key],
                             csv_key, calls, NoError)
        ELSE IF read.outcome # "ok"
        THEN QuestionsFailure(read.error, csv_key, calls)
        ELSE IF processed_questions = <<>>
        THEN QuestionsResult(404, "No questions found",
                             [error |-> "No questions found",
                              csv_key |-> csv_key],
                             csv_key, calls, NoError)
        ELSE QuestionsResult(200, "",
                             [type |-> question_type,
                              questions |-> processed_questions,
                              total_questions |-> Len(processed_questions),
                              success |-> TRUE],
                             csv_key, calls, NoError)

----------------------------------------------------------------------------
(* The requests the callers send *)

Str2(c, d) == <<c, d>>

\* Raw identifiers: clean, with a stripped character, with a dot, made of
\* stripped characters only, and empty
RawCompanyIds == {Str1("a"), Str2("a", "!"), Str1("!")}

RawEmployeeIds == {<<>>, Str1("a"), Str2("a", "!"), Str2("a", "."), Str1("!")}

Answers == {[c1 |-> "yes", c2 |-> "no"], [c1 |-> "maybe"]}

CompanyFields == {EmptyDict} \cup {[company_id |-> c] : c \in RawCompanyIds}

EmployeeFields == {EmptyDict} \cup {[employee_id |-> e] : e \in RawEmployeeIds}

\* The identifying fields of a request: under type employee every
\* company_id with a clean employee_id and every employee_id with a clean
\* company_id, the employee_id absent or clean under type company, and a
\* missing or unknown type
IdFields ==
    {[type |-> "employee"] @@ c @@ [employee_id |-> Str1("a")] :
        c \in CompanyFields}
    \cup {[type |-> "employee", company_id |-> Str1("a")] @@ e :
            e \in EmployeeFields}
    \cup {[type |-> "company"] @@ c @@ e :
            c \in CompanyFields, e \in {EmptyDict, [employee_id |-> Str1("a")]}}
    \cup {t @@ c : t \in {EmptyDict, [type |-> "manager"]},
                   c \in {EmptyDict, [company_id |-> Str1("a")]}}

\* Entries of a files list: two files whose names sanitize to the same
\* stored name, one that does not decode, one whose name sanitizes to
\* nothing, one that is no object, one that decodes to zero bytes
FileEntries ==
    { [filename |-> Str1("f"), content |-> <<"Q", "Q", "=", "=">>],
      [filename |-> Str2("f", "!"), content |-> <<"Q", "U", "Q", "U">>],
      [filename |-> Str1("g"), content |-> <<"Q">>],
      [filename |-> Str1("!"), content |-> <<"Q", "Q", "=", "=">>],
      Null,
      [filename |-> Str1("g"), content |-> <<"!", "!">>] }

FileLists == UNION {[1..n -> FileEntries] : n \in 1..MaxFiles}

\* Requests that vary the identifiers and the answers, without files
IdRequests == {i @@ [responses |-> a] : i \in IdFields, a \in Answers}

\* Requests that vary the files, under clean identifiers
FileRequests ==
    {[type |-> "employee", company_id |-> Str1("a"), employee_id |-> Str1("a"),
      responses |-> [c1 |-> "yes", c2 |-> "no"], files |-> f] : f \in FileLists}
    \cup {[type |-> "company", company_id |-> Str1("a"),
           responses |-> [c1 |-> "maybe"], files |-> f] :
            f \in [1..1 -> FileEntries]}

\* Events from which no request data comes: a body that is no JSON, is
\* empty, is None or is JSON but no object, a flagged body that is no
\* base64 or that decodes to no JSON, an envelope key holding no dict, and
\* an event with none of the fields
MalformedEvents ==
    {[body |-> InvalidBody], [body |-> EmptyBody], [body |-> ArrayBody],
     [body |-> NoneBody],
     [body |-> InvalidBody, isBase64Encoded |-> TRUE],
     [body |-> B64Body(InvalidBody), isBase64Encoded |-> TRUE],
     [data |-> Null],
     EmptyDict}

\* A company request in the other shapes an event carries it in: a base64
\* body, the event's own fields, a nested payload, and the event's own
\* fields beside an empty body
ShapedEvents ==
    LET rd == [type |-> "company", company_id |-> Str1("a"),
               responses |-> [c1 |-> "yes", c2 |-> "no"]]
    IN  {[body |-> B64Body(JsonBody(rd)), isBase64Encoded |-> TRUE],
         rd,
         [payload |-> rd],
         [body |-> EmptyBody] @@ rd}

SaveEvents ==
    {[body |-> JsonBody(rd)] : rd \in IdRequests \cup FileRequests}
    \cup MalformedEvents \cup ShapedEvents

\* A request with one file that decodes
OneFileRequest ==
    [type |-> "employee", company_id |-> Str1("a"), employee_id |-> Str1("a"),
     responses |-> [c1 |-> "yes", c2 |-> "no"],
     files |-> <<[filename |-> Str1("f"), content |-> <<"Q", "Q", "=", "=">>]>>]

\* The save events of callers that send at most that one file
PlainSaveEvents ==
    {[body |-> JsonBody(rd)] : rd \in IdRequests \cup {OneFileRequest}}
    \cup MalformedEvents

GetEvents ==
    {[queryStringParameters |-> i] : i \in IdFields}
    \cup {[queryStringParameters |-> Null], [query |-> Null]}

\* An upper bound on the storage calls a save invocation makes
StorageCalls(event) ==
    LET parsed == ParseRequestBody(event)
        files == DictGet(parsed.data, "files", <<>>)
    IN  IF parsed.outcome # "ok" \/ SaveValidate(parsed.data) # "ok"
        THEN 0
        ELSE IF files # <<>> /\ parsed.data.type = "employee"
        THEN Len(files) + 3
        ELSE 2

\* Events of Get Questions: the type in each place the handler looks for
\* it, an unknown type, no type, and a blank type in one place with a type
\* in a later one
QuestionEvents ==
    {[queryStringParameters |-> [type |-> "company"]],
     [queryStringParameters |-> [type |-> "employee"]],
     [queryStringParameters |-> [type |-> "manager"]],
     [queryStringParameters |-> Null,
      multiValueQueryStringParameters |-> [type |-> <<"employee", "company">>]],
     [rawQueryString |-> <<[k |-> "type", v |-> ""], [k |-> "type", v |-> "company"]>>],
     [pathParameters |-> [type |-> "employee"]],
     [type |-> "company"],
     [requestContext |-> [http |-> [queryString |-> <<[k |-> "type", v |-> "company"]>>]]],
     [path |-> [base |-> "/questions", query |-> <<[k |-> "type", v |-> "employee"]>>]],
     [path |-> [base |-> "/questions"]],
     [queryStringParameters |-> Null],
     [queryStringParameters |-> [type |-> ""], type |-> "company"],
     [queryStringParameters |-> [type |-> ""],
      multiValueQueryStringParameters |-> [type |-> <<"">>],
      type |-> "company"],
     EmptyDict}

\* Rows of a catalog: one with an id, one whose id is blank, one from a
\* catalog without an id column, and a short row whose id cell is missing
CatalogRows ==
    {[id |-> <<"q", "1">>, text |-> <<"a">>, required |-> <<"Y", "e", "s">>,
      options |-> <<"a", ";", " ", "b">>],
     [id |-> <<" ">>, text |-> <<"b">>],
     [text |-> <<"a">>, type |-> <<"a">>],
     [text |-> <<"b">>, id |-> None]}

CsvObject(rows) == [kind |-> "csv", rows |-> rows]

\* What is uploaded as a catalog: the rows of a CSV text of up to MaxRows
\* rows, or bytes that are no UTF-8
CatalogObjects ==
    {CsvObject(rows) : rows \in UNION {[1..n -> CatalogRows] : n \in 0..MaxRows}}
    \cup {BytesObject(2, "text/csv")}

\* Header overrides a caller of lambda_response passes
HeaderOverrides ==
    {NoHeaders,
     ("Access-Control-Allow-Origin" :> "https://example.com"),
     ("X-Request-Id" :> "1"),
     ("Access-Control-Allow-Origin" :> "https://example.com")
       @@ ("X-Request-Id" :> "1")}

StatusCodes == {200, 400, 404, 500}

\* The calls of one invocation that the store fails, by position
FaultSets(n) == {f \in SUBSET (1..n) : Cardinality(f) <= MaxFaults}

\* What goes wrong in the read of a get
GetFaults == {NoFault} \cup ClientFaults \cup CorruptionFaults

\* The same, when the stored texts are intact
PlainGetFaults == {NoFault} \cup ClientFaults

----------------------------------------------------------------------------
(* History of each document key *)

NoHistory ==
    [saved |-> FALSE, first |-> NoTime, answers |-> EmptyDict,
     noFault |-> TRUE, allOk |-> TRUE]

HistoryOf(h, key) == IF key \in DOMAIN h THEN h[key] ELSE NoHistory

AllCallsOk(calls) == \A i \in 1..Len(calls) : calls[i].ok

\* The history of r.key after a save that returned r for request data rd
Record(h, r, rd) ==
    LET old == HistoryOf(h, r.key)
        ok == r.status = 200
    IN  [saved |-> old.saved \/ ok,
         first |-> IF ok /\ ~old.saved
                   THEN r.bucket[r.key].value.submitted_at ELSE old.first,
         answers |-> IF ok THEN DictGet(rd, "responses", EmptyDict)
                     ELSE old.answers,
         noFault |-> old.noFault /\ AllCallsOk(r.calls),
         allOk |-> old.allOk /\ ok]

----------------------------------------------------------------------------
(* The system: invocations one at a time, each response delivered before   *)
(* the next invocation starts                                              *)

Idle == [op |-> "idle"]

\* No save invocation in progress
NoInvocations == <<>>

Init ==
    /\ bucket = [k \in {} |-> Null]
    /\ now = 1
    /\ uuids = 0
    /\ resp = Idle
    /\ hist = [k \in {} |-> NoHistory]
    /\ log_level = "INFO"
    /\ inv = NoInvocations

\* What the caller is handed, with what the invocation did
Response(op, event, r) ==
    [op |-> op, event |-> event, status |-> r.status, error |-> r.error,
     body |-> r.body, key |-> r.key, calls |-> r.calls, exc |-> r.exc,
     headers |-> r.headers]

SaveResponse(event, flt) ==
    /\ resp.op = "idle"
    /\ now < MaxTime
    /\ LET r == SaveHandler(event, bucket, now, uuids, flt)
       IN  /\ bucket' = r.bucket
           /\ uuids' = r.uuids
           /\ now' = IF r.readClock THEN now + 1 ELSE now
           /\ resp' = Response("save", event, r)
           /\ hist' = IF r.key = NoKey
                      THEN hist
                      ELSE Put(hist, r.key,
                               Record(hist, r, ParseRequestBody(event).data))
    /\ UNCHANGED <<log_level, inv>>

GetResponse(event, fault) ==
    /\ resp.op = "idle"
    /\ resp' = Response("get", event, GetHandler(event, bucket, fault))
    /\ UNCHANGED <<bucket, now, uuids, hist, log_level, inv>>

Deliver ==
    /\ resp.op # "idle"
    /\ resp' = Idle
    /\ UNCHANGED <<bucket, now, uuids, hist, log_level, inv>>

Next ==
    \/ \E event \in SaveEvents :
         \E flt \in FaultSets(StorageCalls(event)) : SaveResponse(event, flt)
    \/ \E event \in GetEvents : \E fault \in GetFaults : GetResponse(event, fault)
    \/ Deliver

Spec == Init /\ [][Next]_vars

\* The same system under callers that send at most one file, with the
\* stored texts intact
NextPlain ==
    \/ \E event \in PlainSaveEvents :
         \E flt \in FaultSets(StorageCalls(event)) : SaveResponse(event, flt)
    \/ \E event \in GetEvents :
         \E fault \in PlainGetFaults : GetResponse(event, fault)
    \/ Deliver

SpecPlain == Init /\ [][NextPlain]_vars

----------------------------------------------------------------------------
(* The question catalog *)

\* setup_questions.upload_questions: one catalog file is uploaded
SetupQuestions(question_type, object) ==
    /\ resp.op = "idle"
    /\ bucket' = Put(bucket, CsvKey(question_type), object)
    /\ UNCHANGED <<now, uuids, resp, hist, log_level, inv>>

GetQuestions(event, fault) ==
    /\ resp.op = "idle"
    /\ resp' = Response("questions", event, QuestionsHandler(event, bucket, fault))
    /\ UNCHANGED <<bucket, now, uuids, hist, log_level, inv>>

NextQuestions ==
    \/ \E t \in {"company", "employee"} :
         \E object \in CatalogObjects : SetupQuestions(t, object)
    \/ \E event \in QuestionEvents :
         \E fault \in PlainGetFaults : GetQuestions(event, fault)
    \/ Deliver

SpecQuestions == Init /\ [][NextQuestions]_vars

----------------------------------------------------------------------------
(* A catalog of one question, its options cell any short text *)

OptionChars == {"a", ";", "|", " "}

\* The texts of an options cell: every text of up to MaxOptionLen of these
\* characters, and the words for no options in several spellings
OptionStrings ==
    UNION {[1..n -> OptionChars] : n \in 0..MaxOptionLen}
    \cup {<<"N", "o", "n", "e">>, <<"N", "U", "L", "L">>,
          <<" ", "n", "u", "l", "l">>, <<"n", "o", "n", "E", ";">>}

NextOptions ==
    \/ \E options \in OptionStrings :
         SetupQuestions("company",
                        CsvObject(<<[id |-> <<"q", "1">>, options |-> options]>>))
    \/ GetQuestions([queryStringParameters |-> [type |-> "company"]], NoFault)
    \/ Deliver

SpecOptions == Init /\ [][NextOptions]_vars

----------------------------------------------------------------------------
(* The three handlers and the envelope builder, under either log level *)

LogLevels == {"INFO", "DEBUG"}

InitApi ==
    /\ bucket = [k \in {} |-> Null]
    /\ now = 1
    /\ uuids = 0
    /\ resp = Idle
    /\ hist = [k \in {} |-> NoHistory]
    /\ log_level \in LogLevels
    /\ inv = NoInvocations

\* A caller builds a response with header overrides
BuildEnvelope(status_code, headers) ==
    /\ resp.op = "idle"
    /\ resp' = [op |-> "envelope", status |-> status_code, overrides |-> headers,
                envelope |-> LambdaResponse(status_code,
                                            [message |-> "ok"], headers)]
    /\ UNCHANGED <<bucket, now, uuids, hist, log_level, inv>>

ApiSaveEvents ==
    LET file == [filename |-> Str1("f"), content |-> <<"Q", "Q", "=", "=">>]
        employee == [type |-> "employee", company_id |-> Str1("a"),
                     employee_id |-> Str1("a"), responses |-> [c1 |-> "maybe"]]
    IN  {[body |-> JsonBody([type |-> "company", company_id |-> Str1("a"),
                             responses |-> [c1 |-> "maybe"]])],
         [body |-> JsonBody([type |-> "company", company_id |-> Str1("a"),
                             responses |-> [c1 |-> "yes"],
                             files |-> <<file>>])],
         [body |-> JsonBody(employee @@ [files |-> <<file>>])],
         [body |-> JsonBody(employee @@ [files |-> <<Null, file>>])],
         [body |-> ArrayBody],
         [body |-> InvalidBody]}

ApiGetEvents ==
    {[queryStringParameters |-> [type |-> "company", company_id |-> Str1("a")]],
     [queryStringParameters |-> [type |-> "employee", company_id |-> Str1("a"),
                                 employee_id |-> Str1("a")]],
     [queryStringParameters |-> [company_id |-> Str1("a")]],
     [query |-> Null]}

ApiCatalogObjects ==
    {CsvObject(<<[id |-> <<"q", "1">>, text |-> <<"a">>]>>),
     CsvObject(<<>>),
     BytesObject(2, "text/csv")}

NextApi ==
    \/ \E event \in ApiSaveEvents :
         \E flt \in FaultSets(StorageCalls(event)) : SaveResponse(event, flt)
    \/ \E event \in ApiGetEvents : \E fault \in GetFaults : GetResponse(event, fault)
    \/ \E object \in ApiCatalogObjects : SetupQuestions("company", object)
    \/ \E event \in QuestionEvents :
         \E fault \in PlainGetFaults : GetQuestions(event, fault)
    \/ \E status_code \in StatusCodes :
         \E headers \in HeaderOverrides : BuildEnvelope(status_code, headers)
    \/ Deliver

SpecApi == InitApi /\ [][NextApi]_vars

----------------------------------------------------------------------------
(* Concurrent Save Response invocations on one document key: each          *)
(* invocation is a separate process that shares nothing but the bucket, and *)
(* takes its storage calls one at a time                                    *)

Procs == {1, 2}

\* Requests for one employee's document: without files, with one file,
\* with a file of no content before one that decodes, and with a file of no
\* content only
RaceRequests ==
    LET file == [filename |-> Str1("f"), content |-> <<"Q", "Q", "=", "=">>]
        employee == [type |-> "employee", company_id |-> Str1("a"),
                     employee_id |-> Str1("a")]
    IN  {employee @@ [responses |-> [c1 |-> "yes"]],
         employee @@ [responses |-> [c1 |-> "no", c2 |-> "no"],
                      files |-> <<file>>],
         employee @@ [responses |-> [c2 |-> "maybe"],
                      files |-> <<[filename |-> Str1("g")], file>>],
         employee @@ [responses |-> [c1 |-> "maybe"],
                      files |-> <<[filename |-> Str1("g")]>>]}

RaceEvents == {[body |-> JsonBody(rd)] : rd \in RaceRequests}

\* The key all of them are stored at
RaceKey == EmployeeKey(Str1("a"), Str1("a"))

\* What an invocation last wrote to its key: nothing
NoWrite == [rd |-> EmptyDict, timestamp |-> NoTime, seen |-> NoTime, files |-> <<>>]

\* A process with no invocation yet.  pc is the invocation's position; seen
\* is the submitted_at its read found (NoTime when none), readAt the number
\* of writes to the key made before its read, lastw the number of writes to
\* the key up to and including the last one of this process, wrote what
\* that write was made of.
NotRunning ==
    [pc |-> "idle", rd |-> EmptyDict, timestamp |-> NoTime, key |-> NoKey,
     response_data |-> EmptyDict, i |-> 1, calls |-> <<>>, uploaded |-> <<>>,
     bound |-> FALSE, crashed |-> FALSE, status |-> 0, body |-> EmptyDict,
     seen |-> NoTime, readAt |-> 0, lastw |-> 0, wrote |-> NoWrite]

InitRace ==
    /\ bucket = [k \in {} |-> Null]
    /\ now = 1
    /\ uuids = 0
    /\ resp = Idle
    /\ hist = [k \in {} |-> NoHistory]
    /\ log_level = "INFO"
    /\ inv = [p \in Procs |-> NotRunning]

\* The number of writes made to the document key so far
Writes == CHOOSE n \in {inv[p].lastw : p \in Procs} :
              \A q \in Procs : inv[q].lastw <= n

\* lines 110-182: parse, validate, sanitize, read the clock, derive the key
RaceBegin(p, event) ==
    /\ inv[p].pc \in {"idle", "done"}
    /\ now < MaxTime
    /\ LET parsed == ParseRequestBody(event)
           rd == parsed.data
           valid == parsed.outcome = "ok" /\ SaveValidate(rd) = "ok"
       IN  /\ inv' = [inv EXCEPT ![p] =
                        IF valid
                        THEN [@ EXCEPT !.pc = "read", !.rd = rd,
                                       !.timestamp = now,
                                       !.key = SaveJsonKey(rd),
                                       !.response_data = ResponseData(rd, now),
                                       !.i = 1, !.calls = <<>>,
                                       !.uploaded = <<>>, !.bound = FALSE,
                                       !.crashed = FALSE, !.status = 0,
                                       !.body = EmptyDict]
                        ELSE [@ EXCEPT !.pc = "done", !.rd = rd,
                                       !.status = SaveHandler(event, bucket, now,
                                                              uuids, {}).status]]
           /\ now' = IF valid THEN now + 1 ELSE now
    /\ UNCHANGED <<bucket, uuids, resp, hist, log_level>>

\* lines 185-192: read the existing document, keep its submitted_at
RaceReadExisting(p) ==
    /\ inv[p].pc = "read"
    /\ LET existing == ReadJsonFile(bucket, inv[p].key, NoFault)
           doc == PreserveSubmittedAt(inv[p].response_data, existing)
       IN  inv' = [inv EXCEPT
                     ![p].pc = "write",
                     ![p].response_data = doc,
                     ![p].calls = <<CallRec("get", inv[p].key, ~existing.raised)>>,
                     ![p].seen = IF ~existing.raised
                                    /\ Has(existing.data, "submitted_at")
                                 THEN existing.data.submitted_at ELSE NoTime,
                     ![p].readAt = Writes]
    /\ UNCHANGED <<bucket, now, uuids, resp, hist, log_level>>

\* line 196: write the document
RaceWriteDocument(p) ==
    /\ inv[p].pc = "write"
    /\ LET w == WriteJsonFile(bucket, inv[p].key, inv[p].response_data, FALSE)
           files == AcceptedFiles(inv[p].rd)
       IN  /\ bucket' = w.bucket
           /\ inv' = [inv EXCEPT
                        ![p].pc = IF files # <<>>
                                  THEN "files" ELSE "return",
                        ![p].calls = Append(@, CallRec("put", inv[p].key, TRUE)),
                        ![p].lastw = Writes + 1,
                        ![p].wrote = [rd |-> inv[p].rd,
                                      timestamp |-> inv[p].timestamp,
                                      seen |-> inv[p].seen, files |-> <<>>]]
    /\ UNCHANGED <<now, uuids, resp, hist, log_level>>

\* RaceUploadNext that goes on to the second write when nothing was uploaded
RaceUploadNextThenWrite(p) ==
    /\ inv[p].pc = "files"
    /\ LET files == inv[p].rd.files
           st0 == [bucket |-> bucket, uuids |-> uuids, calls |-> inv[p].calls,
                   uploaded |-> inv[p].uploaded, bound |-> inv[p].bound,
                   crashed |-> inv[p].crashed]
           st == ProcessFile(st0, files[inv[p].i], SanitizeId(inv[p].rd.company_id),
                             SaveEmployeeId(inv[p].rd), inv[p].timestamp, {})
           last == inv[p].i = Len(files) \/ st.crashed
       IN  /\ bucket' = st.bucket
           /\ uuids' = st.uuids
           /\ inv' = [inv EXCEPT
                        ![p].pc = IF ~last THEN "files"
                                  ELSE IF st.crashed
                                  THEN "return" ELSE "attach",
                        ![p].i = @ + 1,
                        ![p].calls = st.calls,
                        ![p].uploaded = st.uploaded,
                        ![p].bound = st.bound,
                        ![p].crashed = st.crashed]
    /\ UNCHANGED <<now, resp, hist, log_level>>

\* lines 205-244: one iteration of the file loop
RaceUploadNext(p) ==
    /\ inv[p].pc = "files"
    /\ LET files == inv[p].rd.files
           st0 == [bucket |-> bucket, uuids |-> uuids, calls |-> inv[p].calls,
                   uploaded |-> inv[p].uploaded, bound |-> inv[p].bound,
                   crashed |-> inv[p].crashed]
           st == ProcessFile(st0, files[inv[p].i], SanitizeId(inv[p].rd.company_id),
                             SaveEmployeeId(inv[p].rd), inv[p].timestamp, {})
           last == inv[p].i = Len(files) \/ st.crashed
       IN  /\ bucket' = st.bucket
           /\ uuids' = st.uuids
           /\ inv' = [inv EXCEPT
                        ![p].pc = IF ~last THEN "files"
                                  ELSE IF st.crashed \/ st.uploaded = <<>>
                                  THEN "return" ELSE "attach",
                        ![p].i = @ + 1,
                        ![p].calls = st.calls,
                        ![p].uploaded = st.uploaded,
                        ![p].bound = st.bound,
                        ![p].crashed = st.crashed]
    /\ UNCHANGED <<now, resp, hist, log_level>>

\* lines 248-252: write the document again, with the attachment records
RaceWriteFiles(p) ==
    /\ inv[p].pc = "attach"
    /\ LET doc == [files |-> inv[p].uploaded] @@ inv[p].response_data
           w == WriteJsonFile(bucket, inv[p].key, doc, FALSE)
       IN  /\ bucket' = w.bucket
           /\ inv' = [inv EXCEPT
                        ![p].pc = "return",
                        ![p].response_data = doc,
                        ![p].calls = Append(@, CallRec("put", inv[p].key, TRUE)),
                        ![p].lastw = Writes + 1,
                        ![p].wrote = [rd |-> inv[p].rd,
                                      timestamp |-> inv[p].timestamp,
                                      seen |-> inv[p].seen,
                                      files |-> inv[p].uploaded]]
    /\ UNCHANGED <<now, uuids, resp, hist, log_level>>

\* lines 257-276: the invocation returns
RaceReturn(p) ==
    /\ inv[p].pc = "return"
    /\ inv' = [inv EXCEPT
                 ![p].pc = "done",
                 ![p].status = IF inv[p].crashed THEN 500 ELSE 200,
                 ![p].body = IF inv[p].crashed
                             THEN InternalError("Failed to save response",
                                                UnboundFilenameText)
                             ELSE SaveSuccessBody(inv[p].rd, inv[p].timestamp,
                                                  inv[p].key, inv[p].uploaded)]
    /\ UNCHANGED <<bucket, now, uuids, resp, hist, log_level>>

NextRace ==
    \/ \E p \in Procs : \E event \in RaceEvents : RaceBegin(p, event)
    \/ \E p \in Procs : RaceReadExisting(p)
    \/ \E p \in Procs : RaceWriteDocument(p)
    \/ \E p \in Procs : RaceUploadNext(p)
    \/ \E p \in Procs : RaceWriteFiles(p)
    \/ \E p \in Procs : RaceReturn(p)

SpecRace == InitRace /\ [][NextRace]_vars

----------------------------------------------------------------------------
(* Properties *)

\* The request data of the invocation in flight
SaveRequest == ParseRequestBody(resp.event).data

GetRequest == ParseQueryParams(resp.event)

Stored(key) == bucket[key].value

FilesOf(b, key) ==
    IF b[key].kind = "json" THEN DictGet(b[key].value, "files", <<>>) ELSE <<>>

\* A document key whose saves all returned 200 with no storage call failing
CleanlySaved(key) ==
    /\ key \in DOMAIN hist
    /\ hist[key].saved /\ hist[key].noFault /\ hist[key].allOk

\* C1: over successful, fault-free saves on one key, the stored submitted_at
\* stays the one the first save stored.
C1_SubmittedAtKept ==
    \A key \in DOMAIN hist :
        CleanlySaved(key) => Stored(key).submitted_at = hist[key].first

\* C1 witness: a second successful save has refreshed a document whose
\* submitted_at is still the first save's.
C1_Witness ==
    \E key \in DOMAIN hist :
        /\ CleanlySaved(key)
        /\ resp.op = "save" /\ resp.key = key /\ resp.status = 200
        /\ Stored(key).updated_at > hist[key].first

C3_AbsentKeyIs404 ==
    (/\ resp.op = "get"
     /\ resp.key # NoKey
     /\ resp.key \notin DOMAIN bucket
     /\ AllCallsOk(resp.calls))
    => (resp.status = 404 /\ resp.body.found = FALSE)

\* C4: a get derives, from the raw identifiers it is given, the storage key
\* a save derives from the same raw identifiers.
C4_GetKeyIsSaveKey ==
    (resp.op = "get" /\ resp.key # NoKey) => resp.key = SaveJsonKey(GetRequest)

\* An identifier that is given and that sanitization empties
EmptiesOut(d, k) == Has(d, k) /\ d[k] # <<>> /\ SanitizeEmployeeIdGet(d[k]) = <<>>

SanitizesToNothing(d) ==
    /\ Has(d, "type") /\ d.type \in {"company", "employee"}
    /\ \/ EmptiesOut(d, "company_id")
       \/ d.type = "employee" /\ EmptiesOut(d, "employee_id")

\* C5: a request whose company_id (or, for an employee, employee_id) is
\* emptied by sanitization is answered 400 and reaches no storage key.
C5_EmptiedIdentifierRejected ==
    /\ (resp.op = "save" /\ ParseRequestBody(resp.event).outcome = "ok"
        /\ SanitizesToNothing(SaveRequest))
       => (resp.status = 400 /\ resp.calls = <<>>)
    /\ (resp.op = "get" /\ IsDict(GetRequest) /\ SanitizesToNothing(GetRequest))
       => (resp.status = 400 /\ resp.calls = <<>>)

\* C6: a save that returns anything but 200 leaves the bucket as it was
\* before the invocation.
C6_NoPartialSuccess ==
    [][(resp'.op = "save" /\ resp'.status # 200) => bucket' = bucket]_vars

\* C7: an attachment record once in a stored document's files list is in
\* that document's files list ever after.
C7_AttachmentsAppendOnly ==
    [][\A key \in DOMAIN bucket :
         \A i \in 1..Len(FilesOf(bucket, key)) :
            \E j \in 1..Len(FilesOf(bucket', key)) :
               FilesOf(bucket', key)[j] = FilesOf(bucket, key)[i]]_vars

\* The files of a list that have content and decode
Decodable(files) ==
    {i \in 1..Len(files) :
        /\ IsDict(files[i])
        /\ DictGet(files[i], "content", <<>>) # <<>>
        /\ B64Decode(DictGet(files[i], "content", <<>>)).ok}

\* C8: an employee save with files, no storage call failing, returns 200
\* with uploaded_files the number of files that decoded, whatever the other
\* entries of the list are.
C8_BadFileNeverAborts ==
    (/\ resp.op = "save"
     /\ resp.key # NoKey
     /\ SaveRequest.type = "employee"
     /\ DictGet(SaveRequest, "files", <<>>) # <<>>
     /\ AllCallsOk(resp.calls))
    => (/\ resp.status = 200
        /\ resp.body.uploaded_files = Cardinality(Decodable(SaveRequest.files)))

NoEmployeeId(d) == ~Has(d, "employee_id") \/ d.employee_id = <<>>

\* C9: a get with type employee and no employee_id is answered 400 without
\* a storage read, whatever the company_id.
C9_GetEmployeeNeedsId ==
    (/\ resp.op = "get"
     /\ IsDict(GetRequest)
     /\ Has(GetRequest, "type") /\ GetRequest.type = "employee"
     /\ NoEmployeeId(GetRequest))
    => (resp.status = 400 /\ resp.calls = <<>>)

\* C9 witness: such a get with a usable company_id has been answered.
C9_Witness ==
    /\ resp.op = "get"
    /\ IsDict(GetRequest)
    /\ Has(GetRequest, "type") /\ GetRequest.type = "employee"
    /\ Has(GetRequest, "employee_id") /\ GetRequest.employee_id = <<>>
    /\ Has(GetRequest, "company_id") /\ GetRequest.company_id = Str1("a")
    /\ resp.status = 400

\* A request that lacks a type, names an unknown type, or lacks a required id
LacksRequired(d) ==
    \/ ~Has(d, "type") \/ d.type \notin {"company", "employee"}
    \/ ~Has(d, "company_id") \/ d.company_id = <<>>
    \/ d.type = "employee" /\ NoEmployeeId(d)

\* C10: a save that lacks a valid type or a required identifier is answered
\* 400, makes no storage call and leaves the bucket unchanged.
C10_InvalidSaveTouchesNothing ==
    [][(/\ resp'.op = "save"
        /\ ParseRequestBody(resp'.event).outcome = "ok"
        /\ LacksRequired(ParseRequestBody(resp'.event).data))
       => (resp'.status = 400 /\ resp'.calls = <<>> /\ bucket' = bucket)]_vars

\* C10 witness: a save with an unknown type was answered 400 while the
\* bucket held a document.
C10_Witness ==
    /\ resp.op = "save" /\ resp.status = 400
    /\ ParseRequestBody(resp.event).outcome = "ok"
    /\ Has(SaveRequest, "type") /\ SaveRequest.type = "manager"
    /\ Has(SaveRequest, "company_id")
    /\ DOMAIN bucket # {}

\* A storage call of the invocation in flight failed
SomeCallFailed == \E i \in 1..Len(resp.calls) : ~resp.calls[i].ok

\* C11: a save returns 500 only when one of its storage calls failed; a
\* request of an unacceptable shape is answered 400.
C11_ServerErrorOnlyOnStorageFailure ==
    (resp.op = "save" /\ resp.status = 500) => SomeCallFailed

Flagged(event) == DictGet(event, "isBase64Encoded", FALSE)

\* The body field of an event after the base64 decoding its flag asks for
DecodedBody(event) ==
    IF Flagged(event) /\ event.body.text = "b64" THEN event.body.of ELSE event.body

\* A body field is present and is no base64 though flagged, or is no JSON
\* after decoding
BodyIsNotJson(event) ==
    /\ Has(event, "body")
    /\ \/ Flagged(event) /\ event.body.text \notin {"b64", "empty"}
       \/ DecodedBody(event).text = "invalid"

\* A body field is present and holds no text
BodyIsEmpty(event) ==
    /\ Has(event, "body")
    /\ ~BodyIsNotJson(event)
    /\ DecodedBody(event).text \in {"empty", "none"}

\* No extraction strategy finds request data in the event
NoStrategyApplies(event) ==
    /\ ~Has(event, "body")
    /\ ~(Has(event, "type") /\ Has(event, "company_id"))
    /\ \A k \in {"data", "requestData", "payload"} :
          ~(Has(event, k) /\ IsDict(event[k]))

\* C12: a save whose event yields no request data, or whose body is no JSON
\* after decoding, is answered 400 "Invalid request body"; it and a save
\* with an empty body make no storage call and leave the bucket unchanged.
C12_MalformedRequestIs400 ==
    [][resp'.op = "save" =>
        /\ (BodyIsNotJson(resp'.event) \/ NoStrategyApplies(resp'.event))
           => (/\ resp'.status = 400
               /\ resp'.error = "Invalid request body"
               /\ resp'.calls = <<>>
               /\ bucket' = bucket)
        /\ BodyIsEmpty(resp'.event)
           => (resp'.status = 400 /\ resp'.calls = <<>> /\ bucket' = bucket)]_vars

\* C12 witness: a flagged body that decodes to text that is no JSON was
\* answered 400 while the bucket held a document.
C12_Witness ==
    /\ resp.op = "save" /\ resp.status = 400
    /\ Has(resp.event, "body") /\ Flagged(resp.event)
    /\ resp.event.body.text = "b64"
    /\ resp.error = "Invalid request body"
    /\ DOMAIN bucket # {}

\* C15: a successful save on a key that holds a document stores an
\* updated_at strictly later than the one the key held.
C15_UpdatedAtStrictlyLater ==
    [][(/\ resp'.op = "save" /\ resp'.status = 200
        /\ resp'.key \in DOMAIN bucket)
       => bucket'[resp'.key].value.updated_at
            > bucket[resp'.key].value.updated_at]_vars

\* C15 witness: the second successful save on a key has stored its own
\* time as updated_at next to the first save's submitted_at.
C15_Witness ==
    /\ resp.op = "save" /\ resp.status = 200
    /\ resp.key \in DOMAIN hist /\ hist[resp.key].saved
    /\ Stored(resp.key).updated_at = resp.body.saved_at
    /\ Stored(resp.key).submitted_at = hist[resp.key].first
    /\ hist[resp.key].first < resp.body.saved_at

\* C16: a get whose storage read fails is answered 500, never 404 or 200.
C16_StorageFaultIs500 ==
    (resp.op = "get" /\ SomeCallFailed) => resp.status = 500

\* The read of the existing document failed and every later call went well
OnlyReadFailed ==
    /\ resp.op = "save" /\ resp.key # NoKey
    /\ ~resp.calls[1].ok
    /\ \A i \in 2..Len(resp.calls) : resp.calls[i].ok

\* C20: a save whose read of the existing document fails, its other calls
\* going well, returns 200 and stores a document whose submitted_at is the
\* time of this save.
C20_ReadFailureIsFirstSubmission ==
    OnlyReadFailed
    => (/\ resp.status = 200
        /\ Stored(resp.key).submitted_at = resp.body.saved_at
        /\ Stored(resp.key).updated_at = resp.body.saved_at)

\* C20 witness: such a save on a key that already held a document saved
\* earlier.
C20_Witness ==
    /\ OnlyReadFailed /\ resp.status = 200
    /\ hist[resp.key].saved
    /\ hist[resp.key].first < Stored(resp.key).submitted_at

\* The catalog object the questions request in flight asked for
Catalog == bucket[resp.key]

\* C17: Get Questions answers an absent catalog with 404 "Questions file not
\* found", a catalog with no valid row with 404 "No questions found", and a
\* read that fails otherwise with 500; none of the three with 200.
C17_CatalogFailuresDistinguished ==
    (resp.op = "questions" /\ resp.key # NoKey)
    => /\ (AllCallsOk(resp.calls) /\ resp.key \notin DOMAIN bucket)
          => (resp.status = 404 /\ resp.body.error = "Questions file not found")
       /\ (/\ AllCallsOk(resp.calls) /\ resp.key \in DOMAIN bucket
           /\ ProcessQuestions(Catalog.rows) = <<>>)
          => (resp.status = 404 /\ resp.body.error = "No questions found")
       /\ ~AllCallsOk(resp.calls)
          => (resp.status = 500 /\ resp.body.error = "Internal server error")

\* C17 witness: a catalog that has rows, none of them valid, was answered
\* with 404 "No questions found".
C17_Witness ==
    /\ resp.op = "questions" /\ resp.key # NoKey
    /\ resp.key \in DOMAIN bucket /\ AllCallsOk(resp.calls)
    /\ Catalog.rows # <<>>
    /\ resp.status = 404 /\ resp.body.error = "No questions found"

\* The cross-origin headers of the envelope builder
CarriesCorsHeaders(headers) ==
    /\ headers["Access-Control-Allow-Origin"] = "*"
    /\ headers["Access-Control-Allow-Headers"] =
          "Content-Type,X-Amz-Date,Authorization,X-Api-Key,X-Amz-Security-Token"
    /\ headers["Access-Control-Allow-Methods"] = "GET,POST,OPTIONS"

\* C18: every response of the three handlers, whatever its status, carries
\* the cross-origin headers; in a response built with header overrides the
\* caller's value stands under each key it gave and the default under each
\* other key.
C18_EnvelopeHeaders ==
    /\ resp.op \in {"save", "get", "questions"}
       => (resp.status \in StatusCodes /\ CarriesCorsHeaders(resp.headers))
    /\ resp.op = "envelope"
       => /\ resp.envelope.statusCode = resp.status
          /\ DOMAIN resp.envelope.headers
               = DOMAIN DefaultHeaders \cup DOMAIN resp.overrides
          /\ \A k \in DOMAIN resp.overrides :
                resp.envelope.headers[k] = resp.overrides[k]
          /\ \A k \in DOMAIN DefaultHeaders \ DOMAIN resp.overrides :
                resp.envelope.headers[k] = DefaultHeaders[k]

\* C18 witness: a 500 built with an override of the allowed origin and a
\* header of the caller's own.
C18_Witness ==
    /\ resp.op = "envelope" /\ resp.status = 500
    /\ DOMAIN resp.overrides = {"Access-Control-Allow-Origin", "X-Request-Id"}
    /\ resp.envelope.headers["Access-Control-Allow-Origin"] = "https://example.com"
    /\ resp.envelope.headers["Access-Control-Allow-Methods"] = "GET,POST,OPTIONS"

\* The field of a 500 body that holds the error detail
Details(body) ==
    IF Has(body, "error_details") THEN body.error_details ELSE body.debug_info

\* C19: an exception that reaches a handler's boundary is answered 500; a
\* 500 body holds a generic error and message, and as detail the error
\* text when log_level is DEBUG and a fixed text otherwise.
C19_BoundaryHidesDetails ==
    resp.op \in {"save", "get", "questions"}
    => /\ resp.status \in StatusCodes
       /\ resp.exc # NoError => resp.status = 500
       /\ resp.status = 500
          => /\ resp.exc # NoError
             /\ DOMAIN resp.body \in {{"error", "message", "error_details"},
                                      {"error", "message", "debug_info"}}
             /\ resp.body.error = "Internal server error"
             /\ resp.body.message \in {"Failed to save response",
                                       "Failed to get response",
                                       "Failed to retrieve questions"}
             /\ Details(resp.body)
                  = IF log_level = "DEBUG" THEN resp.exc ELSE NoDetails

\* C19 witness: with the default log level a save whose write failed was
\* answered 500 without the error text.
C19_Witness ==
    /\ log_level = "INFO"
    /\ resp.op = "save" /\ resp.status = 500
    /\ resp.exc = PutErrorText
    /\ resp.body.error_details = NoDetails

\* The process that made the last write to the document key
LastWriter == CHOOSE p \in Procs : inv[p].lastw = Writes

\* The document a write is made of: the request's own fields, its own
\* clock reading, the submitted_at its read found, its own attachments
DocumentOf(w) ==
    LET own == ResponseData(w.rd, w.timestamp)
        doc == IF w.seen # NoTime THEN [own EXCEPT !.submitted_at = w.seen]
               ELSE own
    IN  IF w.files # <<>> THEN [files |-> w.files] @@ doc ELSE doc

\* C13: of concurrent saves on one key, under every interleaving of their
\* reads and writes, each returns 200, and the stored document is at every
\* moment in full the document of the invocation that wrote last, with no
\* field of another's.
C13_LastWriteWinsInFull ==
    /\ \A p \in Procs : inv[p].pc = "done" => inv[p].status = 200
    /\ Writes > 0
       => /\ bucket[RaceKey].kind = "json"
          /\ bucket[RaceKey].value = DocumentOf(inv[LastWriter].wrote)

\* C13 witness: two invocations that both read before either wrote have
\* both returned, one of them after a second write with its attachments,
\* and the other, without attachments, wrote last.
C13_Witness ==
    /\ \A p \in Procs : inv[p].pc = "done" /\ inv[p].readAt = 0
    /\ \E p \in Procs : inv[p].uploaded # <<>> /\ inv[p].lastw = Writes - 1
    /\ inv[LastWriter].wrote.files = <<>>
    /\ Writes = 3

\* A step leaves the submitted_at stored at the document key as it is
KeepsSubmittedAt ==
    RaceKey \in DOMAIN bucket
    => bucket'[RaceKey].value.submitted_at = bucket[RaceKey].value.submitted_at

\* C14 as stated: once a document is stored at the key, every later stored
\* version carries the same submitted_at.
C14_SubmittedAtSetOnce == [][KeepsSubmittedAt]_vars

\* Process p writes to the document key in this step
WritesNow(p) == inv'[p].lastw # inv[p].lastw

\* C14, amended: every version an invocation stores carries the
\* submitted_at of the document its read found at the key (its own clock
\* reading when it found none), and a write changes the key's submitted_at
\* only when another invocation wrote to the key between the writer's read
\* and that write.
WritesWhatItRead ==
    \A p \in Procs :
        WritesNow(p)
        => /\ bucket'[RaceKey].value.submitted_at
                = (IF inv[p].seen # NoTime THEN inv[p].seen
                   ELSE inv[p].timestamp)
           /\ (\A q \in Procs \ {p} : inv[q].lastw <= inv[p].readAt)
              => KeepsSubmittedAt

C14_SubmittedAtOfTheVersionRead == [][WritesWhatItRead]_vars

\* C14 witness: while another invocation is between its two writes, an
\* invocation that read the document stored by the first of them has
\* written a version with its submitted_at, earlier than its own clock
\* reading.
C14_Witness ==
    \E p \in Procs :
        /\ inv[p].lastw = Writes /\ inv[p].lastw > inv[p].readAt
        /\ inv[p].seen # NoTime /\ inv[p].seen < inv[p].timestamp
        /\ bucket[RaceKey].value.submitted_at = inv[p].seen
        /\ \E q \in Procs \ {p} : inv[q].pc \in {"files", "attach"}

\* The step is a save invocation, of a request that passed validation
SaveStep ==
    /\ resp.op = "idle" /\ resp'.op = "save"
    /\ ParseRequestBody(resp'.event).outcome = "ok"
    /\ SaveValidate(ParseRequestBody(resp'.event).data) = "ok"

\* The attachment blobs of a store
Blobs(b) == {k \in DOMAIN b : b[k].kind = "bytes"}

\* C21: a company save with a non-empty files list, no storage call
\* failing, is answered 200 with uploaded_files = 0, writes no blob under
\* any key, and stores a document without a files list.
C21_CompanyFilesIgnored ==
    [][(/\ SaveStep
        /\ ParseRequestBody(resp'.event).data.type = "company"
        /\ DictGet(ParseRequestBody(resp'.event).data, "files", <<>>) # <<>>
        /\ AllCallsOk(resp'.calls))
       => (/\ resp'.status = 200
           /\ resp'.body.uploaded_files = 0
           /\ Blobs(bucket') = Blobs(bucket)
           /\ \A k \in Blobs(bucket) : bucket'[k] = bucket[k]
           /\ bucket'[resp'.key].kind = "json"
           /\ ~Has(bucket'[resp'.key].value, "files"))]_vars

\* C21 witness: a company save that came with a file has been answered
\* 200 with uploaded_files = 0.
C21_Witness ==
    /\ resp.op = "save" /\ resp.status = 200
    /\ SaveRequest.type = "company"
    /\ Has(SaveRequest, "files") /\ SaveRequest.files # <<>>
    /\ resp.body.uploaded_files = 0
    /\ ~Has(Stored(resp.key), "files")

\* The positions, among the storage calls of process p's invocation, of
\* the writes to its document key
KeyWrites(p) ==
    {n \in 1..Len(inv[p].calls) :
        inv[p].calls[n].op = "put" /\ inv[p].calls[n].key = inv[p].key}

\* An invocation that has returned wrote its key once, right after the
\* read, when it uploaded nothing, and once more, as its last storage
\* call, when it uploaded something
WroteOnceOrTwice ==
    \A p \in Procs :
        inv[p].pc = "done"
        => KeyWrites(p) = IF inv[p].uploaded = <<>>
                          THEN {2} ELSE {2, Len(inv[p].calls)}

\* A second write by p stores, when every file has been gone through, the
\* document of p's first write with the files list added
SecondWriteAddsFiles ==
    \A p \in Procs :
        (WritesNow(p) /\ KeyWrites(p) # {})
        => /\ inv[p].i > Len(inv[p].rd.files)
           /\ inv[p].uploaded # <<>>
           /\ ~Has(DocumentOf(inv[p].wrote), "files")
           /\ bucket'[inv[p].key].value
                = [files |-> inv[p].uploaded] @@ DocumentOf(inv[p].wrote)

\* C22: within one save invocation the document key is written once when
\* no attachment succeeded and twice when one did; the second write comes
\* after all files, goes to the same key, and differs from the first
\* written document only by the added files list.
C22_SecondWriteOnlyAfterUpload == [][WroteOnceOrTwice' /\ SecondWriteAddsFiles]_vars

\* C22 witness: one invocation has returned after two writes, the upload
\* of its second file between them, and one after a single write, none of
\* its files uploaded.
C22_Witness ==
    /\ \E p \in Procs :
          /\ inv[p].pc = "done"
          /\ Has(inv[p].rd, "files") /\ Len(inv[p].rd.files) = 2
          /\ Len(inv[p].uploaded) = 1 /\ KeyWrites(p) = {2, 4}
    /\ \E p \in Procs :
          /\ inv[p].pc = "done" /\ Has(inv[p].rd, "files")
          /\ inv[p].uploaded = <<>> /\ KeyWrites(p) = {2}

\* What each of the six sources holds for the type, in their order: the
\* single-value query map, the first value of the multi-value query map,
\* the raw query string, the path parameters, the event's own field, and
\* the query string in the path; "" where a source holds nothing
SourceValues(event) ==
    <<TypeFromQueryStringParameters(event),
      TypeFromMultiValue(event).type,
      TypeFromRawQueryString(event),
      TypeFromPathParameters(event),
      DictGet(event, "type", ""),
      TypeFromPath(event)>>

\* The value of the first source that holds a non-empty one
FirstNonEmpty(values) ==
    LET filled == SelectSeq(values, LAMBDA v : v # "")
    IN  IF filled = <<>> THEN "" ELSE filled[1]

\* The type a questions response was made for
ServedType ==
    IF resp.status = 400 /\ resp.error = "Missing required parameter: type"
    THEN ""
    ELSE IF resp.status = 400
    THEN resp.body.received_type
    ELSE CHOOSE t \in {"company", "employee"} : resp.key = CsvKey(t)

\* C23: the type Get Questions extracts from an event in which one of the
\* six sources holds a non-empty value is the value of the first such
\* source; a source that is there without a value does not stop the chain.
C23_FirstNonEmptySourceWins ==
    (resp.op = "questions" /\ FirstNonEmpty(SourceValues(resp.event)) # "")
    => ServedType = FirstNonEmpty(SourceValues(resp.event))

\* The body strategy raises on the event: a flagged body that is no
\* base64, or a body that is no JSON object
BodyRaises(event) ==
    /\ Has(event, "body")
    /\ \/ Flagged(event) /\ event.body.text \notin {"b64", "empty"}
       \/ DecodedBody(event).text \in {"invalid", "jsonarray"}

\* What each of the three strategies yields, in their order: the object
\* in the body field, the event itself when it has type and company_id,
\* and the dict under the first of data, requestData and payload that
\* holds one; the empty dict where a strategy yields nothing
StrategyResults(event) ==
    LET nested == SelectSeq(<<"data", "requestData", "payload">>,
                            LAMBDA k : Has(event, k) /\ IsDict(event[k]))
    IN  <<IF Has(event, "body") /\ DecodedBody(event).text = "json"
          THEN DecodedBody(event).value ELSE EmptyDict,
          IF Has(event, "type") /\ Has(event, "company_id")
          THEN event ELSE EmptyDict,
          IF nested # <<>> THEN event[nested[1]] ELSE EmptyDict>>

\* The result of the first strategy that yields a non-empty one
FirstResult(event) ==
    LET filled == SelectSeq(StrategyResults(event), LAMBDA d : d # EmptyDict)
    IN  IF filled = <<>> THEN EmptyDict ELSE filled[1]

\* C24: the request data Save Response goes on with is the result of the
\* first of the three strategies that yields a non-empty one; an empty
\* body field does not keep the later strategies from being tried.
C24_FirstNonEmptyStrategyWins ==
    (/\ resp.op = "save" /\ ~BodyRaises(resp.event)
     /\ FirstResult(resp.event) # EmptyDict)
    => /\ SaveValidate(FirstResult(resp.event)) = "ok"
          => resp.key = SaveJsonKey(FirstResult(resp.event))
       /\ SaveValidate(FirstResult(resp.event)) # "ok"
          => (resp.status = 400
              /\ resp.error = SaveValidate(FirstResult(resp.event)))

\* A questions request that read a catalog
CatalogRead ==
    /\ resp.op = "questions" /\ resp.key # NoKey
    /\ resp.key \in DOMAIN bucket /\ Catalog.kind = "csv"
    /\ AllCallsOk(resp.calls)

\* The id of a catalog row after trimming
TrimmedId(row) == Strip(StrOf(DictGet(row, "id", <<>>)))

\* The rows of the catalog whose id is not empty after trimming
RowsWithId == SelectSeq(Catalog.rows, LAMBDA row : TrimmedId(row) # <<>>)

\* C25: Get Questions emits no record with an empty id: the rows whose id
\* is empty after trimming are dropped without an error, the other rows
\* are emitted in catalog order, and total_questions counts them.
C25_BlankIdRowsDropped ==
    CatalogRead
    => /\ resp.status # 500
       /\ RowsWithId # <<>>
          => /\ resp.status = 200
             /\ resp.body.total_questions = Len(resp.body.questions)
             /\ Len(resp.body.questions) = Len(RowsWithId)
             /\ \A n \in 1..Len(RowsWithId) :
                   /\ resp.body.questions[n].id # <<>>
                   /\ resp.body.questions[n].id = TrimmedId(RowsWithId[n])
                   /\ resp.body.questions[n].text
                        = Strip(StrOf(DictGet(RowsWithId[n], "text", <<>>)))

\* C25 witness: of a catalog of two rows, the first with a blank id, the
\* second one alone was emitted.
C25_Witness ==
    /\ CatalogRead /\ resp.status = 200
    /\ Len(Catalog.rows) = 2
    /\ Has(Catalog.rows[1], "id") /\ Catalog.rows[1].id = <<" ">>
    /\ resp.body.total_questions = 1
    /\ resp.body.questions[1].id = TrimmedId(Catalog.rows[2])

\* C26: in a 200 response of Get Questions no two question records have
\* the same id.
C26_QuestionIdsUnique ==
    (resp.op = "questions" /\ resp.status = 200)
    => \A m, n \in 1..Len(resp.body.questions) :
          resp.body.questions[m].id = resp.body.questions[n].id => m = n

\* The options cell of the one question of the catalog read, and the
\* options of the record emitted for it
OptionsCell == Strip(Catalog.rows[1].options)

EmittedOptions == resp.body.questions[1].options

NoOptionWords == {<<"n", "o", "n", "e">>, <<"n", "u", "l", "l">>}

\* A catalog of one question with an options cell was read and answered
OptionsRead ==
    /\ CatalogRead /\ resp.status = 200
    /\ Len(Catalog.rows) = 1 /\ Has(Catalog.rows[1], "options")

\* C27 as stated: the options are the empty list for an empty cell or
\* none/null in any case, else the cell split on semicolons when it has
\* one, else split on pipes when it has one, else the trimmed cell alone;
\* segments as the split leaves them, the empty ones too.
C27_OptionsAreThePlainSplit ==
    OptionsRead
    => EmittedOptions
         = IF OptionsCell = <<>> \/ Lower(OptionsCell) \in NoOptionWords
           THEN <<>>
           ELSE IF Contains(OptionsCell, ";") THEN Split(OptionsCell, ";")
           ELSE IF Contains(OptionsCell, "|") THEN Split(OptionsCell, "|")
           ELSE <<OptionsCell>>

\* The stretches of s between separators, from first to last, as pairs of
\* positions; a stretch of no character is none
Stretches(s, sep) ==
    LET ends == {<<i, j>> \in (1..Len(s)) \X (1..Len(s)) :
                    /\ i <= j
                    /\ \A k \in i..j : s[k] # sep
                    /\ i = 1 \/ s[i - 1] = sep
                    /\ j = Len(s) \/ s[j + 1] = sep}
    IN  CHOOSE seq \in [1..Cardinality(ends) -> ends] :
            \A m, n \in 1..Cardinality(ends) : m < n => seq[m][2] < seq[n][1]

\* The stretches of s that hold more than blanks, each trimmed
TrimmedSegments(s, sep) ==
    LET all == Stretches(s, sep)
        trimmed == [n \in 1..Len(all) |-> Strip(SubSeq(s, all[n][1], all[n][2]))]
    IN  SelectSeq(trimmed, LAMBDA segment : segment # <<>>)

\* C27, amended: as stated, but each segment of a split is trimmed and the
\* segments that are empty after trimming are left out.
C27_OptionsAreTheTrimmedSegments ==
    OptionsRead
    => EmittedOptions
         = IF OptionsCell = <<>> \/ Lower(OptionsCell) \in NoOptionWords
           THEN <<>>
           ELSE IF Contains(OptionsCell, ";")
           THEN TrimmedSegments(OptionsCell, ";")
           ELSE IF Contains(OptionsCell, "|")
           THEN TrimmedSegments(OptionsCell, "|")
           ELSE <<OptionsCell>>

\* C27 witness: a cell with a semicolon, a pipe and an empty segment was
\* split on the semicolon into the one segment that is left.
C27_Witness ==
    /\ OptionsRead
    /\ Catalog.rows[1].options = <<"|", ";", " ">>
    /\ EmittedOptions = <<<<"|">>>>

\* The keys at which two stores differ
Changed(b, c) ==
    {k \in DOMAIN b \cup DOMAIN c :
        k \notin DOMAIN b \/ k \notin DOMAIN c \/ b[k] # c[k]}

\* k is an attachment key of the employee document key: the key with
\* /files/ and a name in the place of .json
AttachmentKeyOf(k, key) ==
    /\ key # NoKey /\ key[Len(key)] = ".json"
    /\ Len(k) > Len(key)
    /\ SubSeq(k, 1, Len(key)) = SubSeq(key, 1, Len(key) - 1) \o <<"/files/">>

\* C28: a Save Response invocation changes the store at most at its
\* document key and at attachment keys under that key's own files prefix,
\* and Get Response and Get Questions change nothing, whatever they
\* return.
C28_HandlersWriteOnlyTheirKeys ==
    [][/\ (resp.op = "idle" /\ resp'.op \in {"get", "questions"})
          => bucket' = bucket
       /\ (resp.op = "idle" /\ resp'.op = "save")
          => \A k \in Changed(bucket, bucket') :
                /\ k \in DOMAIN bucket'
                /\ k = resp'.key \/ AttachmentKeyOf(k, resp'.key)]_vars

\* C28 witness: beside a stored company document and a catalog, an
\* employee save has written its document and a blob under its prefix.
C28_Witness ==
    /\ resp.op = "save" /\ resp.status = 200
    /\ resp.key = EmployeeKey(Str1("a"), Str1("a"))
    /\ \E k \in Blobs(bucket) : AttachmentKeyOf(k, resp.key)
    /\ CompanyKey(Str1("a")) \in DOMAIN bucket
    /\ CsvKey("company") \in DOMAIN bucket

\* The survey documents of the store
Documents == {k \in DOMAIN bucket : bucket[k].kind = "json"}

CleanId(id) == \A n \in 1..Len(id) : IsAlnum(id[n]) \/ id[n] \in {"-", "_"}

\* C29: every stored survey document agrees with its key: a company
\* document is at companies/{company_id}/form.json and has no employee_id,
\* an employee document is at
\* companies/{company_id}/employees/{employee_id}.json, and the
\* identifiers hold alphanumerics, hyphens and underscores only.
C29_DocumentAgreesWithKey ==
    \A k \in Documents :
        LET doc == Stored(k)
        IN  /\ CleanId(doc.company_id)
            /\ \/ /\ doc.type = "company"
                  /\ ~Has(doc, "employee_id")
                  /\ k = CompanyKey(doc.company_id)
               \/ /\ doc.type = "employee"
                  /\ Has(doc, "employee_id")
                  /\ CleanId(doc.employee_id)
                  /\ k = EmployeeKey(doc.company_id, doc.employee_id)

\* C30: every attachment record of a stored document refers to a blob
\* that is there at its file_key and has the record's size.
C30_RecordsMatchBlobs ==
    \A k \in Documents :
        \A n \in 1..Len(FilesOf(bucket, k)) :
            LET record == FilesOf(bucket, k)[n]
            IN  /\ record.file_key \in DOMAIN bucket
                /\ bucket[record.file_key].kind = "bytes"
                /\ bucket[record.file_key].size = record.size

====
